---- MODULE Spec2Model ----
(***************************************************************************)
(* A model of no-sleep (lib/main.ts): the load-time choice between the     *)
(* three INoSleep implementations (NoSleepSSR, NoSleepNative,              *)
(* NoSleepVideo), and the life cycle of one instance of the chosen class   *)
(* against the platform objects it drives (the Screen Wake Lock API, a     *)
(* <video> element, document visibility).                                  *)
(*                                                                         *)
(* Strings the code inspects are sequences of one-character strings, so    *)
(* that the two regular expressions of getIOSVersion are computed.  Media  *)
(* times are in tenths of a second.                                        *)
(***************************************************************************)
EXTENDS Integers, Sequences, FiniteSets

\* ------------------------------------------------------------------ bounds
MaxHandles == 3       \* WakeLockSentinel objects the platform hands out
MaxInflight == 2      \* enable() calls awaiting the platform at one time
MaxVersionPart == 3   \* largest major / minor of the comparator's inputs
MaxStep == 3          \* tenths of a second played between two timeupdate events
MaxMetadataEvents == 2 \* loadedmetadata notifications delivered to the element

\* --------------------------------------------------------------- constants
OneSecond == 10       \* "1" of duration <= 1, in tenths of a second
HalfSecond == 5       \* "0.5" of currentTime > 0.5

\* ------------------------------------------------ characters and strings
Digits == <<"0", "1", "2", "3", "4", "5", "6", "7", "8", "9">>

IsDigit(c) == \E d \in 1..Len(Digits) : Digits[d] = c

DigitValue(c) == (CHOOSE d \in 1..Len(Digits) : Digits[d] = c) - 1

\* RegExp.test with a literal: does lit occur in s
Contains(s, lit) ==
    \E i \in 1..(Len(s) - Len(lit) + 1) :
        \A k \in 1..Len(lit) : s[i + k - 1] = lit[k]

\* \d+ is greedy: the index of the last digit of the run starting at i
\* (i - 1 when s[i] is no digit)
RECURSIVE DigitRunEnd(_, _)
DigitRunEnd(s, i) ==
    IF i <= Len(s) /\ IsDigit(s[i]) THEN DigitRunEnd(s, i + 1) ELSE i - 1

\* Number("017") = 17
RECURSIVE ToNumber(_)
ToNumber(ds) ==
    IF ds = <<>> THEN 0
    ELSE ToNumber(SubSeq(ds, 1, Len(ds) - 1)) * 10 + DigitValue(ds[Len(ds)])

\* /OS (\d+)_(\d+)/ anchored at index i: the two groups, or <<>>
MatchOSAt(s, i) ==
    LET majorEnd == DigitRunEnd(s, i + 3)
        minorEnd == DigitRunEnd(s, majorEnd + 2)
    IN  IF /\ i + 2 <= Len(s)
           /\ s[i] = "O" /\ s[i + 1] = "S" /\ s[i + 2] = " "
           /\ majorEnd >= i + 3
           /\ majorEnd + 1 <= Len(s) /\ s[majorEnd + 1] = "_"
           /\ minorEnd >= majorEnd + 2
        THEN << SubSeq(s, i + 3, majorEnd), SubSeq(s, majorEnd + 2, minorEnd) >>
        ELSE <<>>

\* String.match: the leftmost match, or <<>> for null
MatchOS(s) ==
    LET hits == { i \in 1..Len(s) : MatchOSAt(s, i) # <<>> }
    IN  IF hits = {} THEN <<>>
        ELSE MatchOSAt(s, CHOOSE i \in hits : \A j \in hits : i <= j)

\* ------------------------------------------------------ version helpers
\* getIOSVersion: <<>> stands for null
getIOSVersion(userAgent) ==
    IF ~ ( \/ Contains(userAgent, <<"i", "P", "o", "d">>)
           \/ Contains(userAgent, <<"i", "P", "h", "o", "n", "e">>)
           \/ Contains(userAgent, <<"i", "P", "a", "d">>) )
    THEN <<>>
    ELSE LET match == MatchOS(userAgent)
         IN  IF match = <<>> THEN <<>>
             ELSE << ToNumber(match[1]), ToNumber(match[2]) >>

\* a comparison that compares the two components separately
isVersionGTE_componentwise(a, b) == a[1] >= b[1] /\ a[2] >= b[2]

isVersionGTE(a, b) == a[1] > b[1] \/ (a[1] = b[1] /\ a[2] >= b[2])

\* shouldUseNative, on the navigator object nav
shouldUseNative(nav) ==
    IF ~nav.wakeLock THEN FALSE
    ELSE LET iOSVersion == getIOSVersion(nav.userAgent)
         IN  IF iOSVersion = <<>> THEN TRUE
             ELSE ~nav.standalone \/ isVersionGTE(iOSVersion, <<18, 4>>)

\* defaultExport: the class chosen when the module is evaluated
defaultExport(e) ==
    IF ~e.hasNavigator THEN "NoSleepSSR"
    ELSE IF shouldUseNative(e.navigator) THEN "NoSleepNative"
    ELSE "NoSleepVideo"

\* ------------------------------------------------------------ environment
\* navigator.userAgent values (the part between the parentheses)
\* iPhone; CPU iPhone OS 17_0 like Mac OS X
UA_iPhone_17_0 ==
    <<"i", "P", "h", "o", "n", "e", ";", " ", "C", "P", "U", " ", "i", "P", "h", "o", "n", "e", " ", "O", "S", " ", "1", "7", "_", "0", " ", "l", "i", "k", "e", " ", "M", "a", "c", " ", "O", "S", " ", "X">>

\* iPhone; CPU iPhone OS 18_3 like Mac OS X
UA_iPhone_18_3 ==
    <<"i", "P", "h", "o", "n", "e", ";", " ", "C", "P", "U", " ", "i", "P", "h", "o", "n", "e", " ", "O", "S", " ", "1", "8", "_", "3", " ", "l", "i", "k", "e", " ", "M", "a", "c", " ", "O", "S", " ", "X">>

\* iPhone; CPU iPhone OS 18_4 like Mac OS X
UA_iPhone_18_4 ==
    <<"i", "P", "h", "o", "n", "e", ";", " ", "C", "P", "U", " ", "i", "P", "h", "o", "n", "e", " ", "O", "S", " ", "1", "8", "_", "4", " ", "l", "i", "k", "e", " ", "M", "a", "c", " ", "O", "S", " ", "X">>

\* iPad; CPU OS 18_10 like Mac OS X
UA_iPad_18_10 ==
    <<"i", "P", "a", "d", ";", " ", "C", "P", "U", " ", "O", "S", " ", "1", "8", "_", "1", "0", " ", "l", "i", "k", "e", " ", "M", "a", "c", " ", "O", "S", " ", "X">>

\* iPod touch; CPU iPhone OS 9_3 like Mac OS X
UA_iPod_9_3 ==
    <<"i", "P", "o", "d", " ", "t", "o", "u", "c", "h", ";", " ", "C", "P", "U", " ", "i", "P", "h", "o", "n", "e", " ", "O", "S", " ", "9", "_", "3", " ", "l", "i", "k", "e", " ", "M", "a", "c", " ", "O", "S", " ", "X">>

\* iPhone; CPU iPhone OS 19_0 like Mac OS X
UA_iPhone_19_0 ==
    <<"i", "P", "h", "o", "n", "e", ";", " ", "C", "P", "U", " ", "i", "P", "h", "o", "n", "e", " ", "O", "S", " ", "1", "9", "_", "0", " ", "l", "i", "k", "e", " ", "M", "a", "c", " ", "O", "S", " ", "X">>

\* iPhone; CPU iPhone OS 17.0
UA_iPhone_dotted ==
    <<"i", "P", "h", "o", "n", "e", ";", " ", "C", "P", "U", " ", "i", "P", "h", "o", "n", "e", " ", "O", "S", " ", "1", "7", ".", "0">>

\* iPad; like Mac OS X
UA_iPad_no_version ==
    <<"i", "P", "a", "d", ";", " ", "l", "i", "k", "e", " ", "M", "a", "c", " ", "O", "S", " ", "X">>

\* Macintosh; Intel Mac OS X 10_15_7
UA_Macintosh ==
    <<"M", "a", "c", "i", "n", "t", "o", "s", "h", ";", " ", "I", "n", "t", "e", "l", " ", "M", "a", "c", " ", "O", "S", " ", "X", " ", "1", "0", "_", "1", "5", "_", "7">>

\* Linux; Android 14; Pixel 8
UA_Android ==
    <<"L", "i", "n", "u", "x", ";", " ", "A", "n", "d", "r", "o", "i", "d", " ", "1", "4", ";", " ", "P", "i", "x", "e", "l", " ", "8">>

\* Node.js/22
UA_Node ==
    <<"N", "o", "d", "e", ".", "j", "s", "/", "2", "2">>

UserAgents ==
    { UA_iPhone_17_0,
      UA_iPhone_18_3,
      UA_iPhone_18_4,
      UA_iPad_18_10,
      UA_iPod_9_3,
      UA_iPhone_19_0,
      UA_iPhone_dotted,
      UA_iPad_no_version,
      UA_Macintosh,
      UA_Android,
      UA_Node }

\* the user agents the life-cycle specification starts from
LifecycleUserAgents == { UA_iPhone_17_0 }

\* the navigator of an environment that has none (never read)
NoNavigator == [wakeLock |-> FALSE, userAgent |-> <<>>, standalone |-> FALSE]

\* The hosts the module can be evaluated in.  navigator.wakeLock and
\* navigator.standalone exist only on a window's navigator, so they come
\* with a document; a document may not have its <body> yet.
Environments(agents) ==
    { e \in [ hasNavigator : BOOLEAN,
              navigator : [ wakeLock : BOOLEAN,
                            userAgent : agents \cup {<<>>},
                            standalone : BOOLEAN ],
              hasDocument : BOOLEAN,
              hasBody : BOOLEAN ] :
        /\ e.hasNavigator => e.navigator.userAgent \in agents
        /\ ~e.hasNavigator => e.navigator = NoNavigator
        /\ e.hasBody => e.hasDocument
        /\ e.navigator.wakeLock => e.hasDocument
        /\ e.navigator.standalone => e.hasDocument }

\* ------------------------------------------------------------------ state
VARIABLES
    env,          \* the host: navigator, document, body
    pc,           \* "start", "loaded" (module evaluated), "constructed", "crashed"
    strategy,     \* the class defaultExport names, "none" before the module is loaded
    enabled,      \* INoSleep.enabled
    wakeLock,     \* NoSleepNative.wakeLock: a handle, or 0 for undefined
    inflight,     \* enable() calls suspended at their await, per caller
    nextHandle,   \* platform: the next WakeLockSentinel to hand out
    active,       \* platform: sentinels granted and not released
    releaseLog,   \* platform: the sentinels release() was called on, in order
    docVisible,   \* document.visibilityState = "visible"
    elementsCreated, \* <video> elements the instance has created
    noSleepVideo, \* NoSleepVideo.noSleepVideo: the element's state
    rejecting,    \* play() promises already rejected whose catch has not run yet
    metadataEvents, \* loadedmetadata notifications delivered so far
    last,         \* history: the step taken last and how it ended
    lastOutcome,  \* history: outcome of the latest enable completion / disable / release
    va, vb, vc,   \* comparator inputs
    gte           \* comparator results

vars == << env, pc, strategy, enabled, wakeLock, inflight, nextHandle, active,
           releaseLog, docVisible, elementsCreated, noSleepVideo, rejecting,
           metadataEvents, last, lastOutcome, va, vb, vc, gte >>

envVars == << env, strategy >>
nativeVars == << wakeLock, inflight, nextHandle, active, releaseLog, docVisible >>
videoVars == << elementsCreated, noSleepVideo, rejecting, metadataEvents >>
cmpVars == << va, vb, vc, gte >>

Handles == 1..MaxHandles
Origins == {"caller", "listener"}   \* who called enable(): the page, or handleVisibilityChange

Inflight == inflight["caller"] + inflight["listener"]

\* the history record of a step; prev: the step before it; observed: the
\* position the timeupdate listeners were called at
Step(op, result, platform, origin, handle) ==
    [op |-> op, result |-> result, platform |-> platform, origin |-> origin,
     handle |-> handle, prev |-> last.op, observed |-> 0]

\* the <video> element before the constructor has run
NoElement ==
    [ sources |-> <<>>, inBody |-> FALSE, loop |-> FALSE, paused |-> TRUE,
      currentTime |-> 0, duration |-> 0, onloadedmetadata |-> 0, ontimeupdate |-> 0 ]

InitInstance ==
    /\ pc = "start"
    /\ strategy = "none"
    /\ enabled = FALSE
    /\ wakeLock = 0
    /\ inflight = [o \in Origins |-> 0]
    /\ nextHandle = 1
    /\ active = {}
    /\ releaseLog = <<>>
    /\ docVisible = TRUE
    /\ elementsCreated = 0
    /\ noSleepVideo = NoElement
    /\ rejecting = 0
    /\ metadataEvents = 0
    /\ last = [ op |-> "none", result |-> "none", platform |-> "none",
                origin |-> "none", handle |-> 0, prev |-> "none", observed |-> 0 ]
    /\ lastOutcome = FALSE

InitCmp ==
    /\ va = <<0, 0>> /\ vb = <<0, 0>> /\ vc = <<0, 0>>
    /\ gte = <<>>

Init ==
    /\ env \in Environments(LifecycleUserAgents)
    /\ InitInstance
    /\ InitCmp

\* ------------------------------------------------------- module evaluation
\* const defaultExport = typeof navigator === 'undefined' ? ... (runs once)
LoadModule ==
    /\ pc = "start"
    /\ pc' = "loaded"
    /\ strategy' = defaultExport(env)
    /\ last' = Step("load", "returned", "none", "none", 0)
    /\ UNCHANGED << env, enabled, lastOutcome >>
    /\ UNCHANGED nativeVars
    /\ UNCHANGED videoVars
    /\ UNCHANGED cmpVars

\* ------------------------------------------------------------- NoSleepSSR
\* new NoSleepSSR(): the class has no constructor, only enabled = false
NoSleepSSR_new(e) == [threw |-> FALSE, enabled |-> FALSE]

\* an enable() that returns quietly
NoSleepSSR_enable_quiet(wasEnabled) == [threw |-> FALSE, enabled |-> wasEnabled]

\* enable() { throw new Error(...) }
NoSleepSSR_enable(wasEnabled) == [threw |-> TRUE, enabled |-> wasEnabled]

\* disable() { throw new Error(...) }
NoSleepSSR_disable(wasEnabled) == [threw |-> TRUE, enabled |-> wasEnabled]

Outcome(r) == IF r.threw THEN "threw" ELSE "returned"

SSRConstruct ==
    /\ pc = "loaded" /\ strategy = "NoSleepSSR"
    /\ LET r == NoSleepSSR_new(env)
       IN  /\ pc' = IF r.threw THEN "crashed" ELSE "constructed"
           /\ enabled' = r.enabled
           /\ last' = Step("new", Outcome(r), "none", "caller", 0)
    /\ UNCHANGED << env, strategy, lastOutcome >>
    /\ UNCHANGED nativeVars
    /\ UNCHANGED videoVars
    /\ UNCHANGED cmpVars

SSREnable ==
    /\ pc = "constructed" /\ strategy = "NoSleepSSR"
    /\ LET r == NoSleepSSR_enable(enabled)
       IN  /\ enabled' = r.enabled
           /\ last' = Step("enable", Outcome(r), "none", "caller", 0)
    /\ UNCHANGED << env, pc, strategy, lastOutcome >>
    /\ UNCHANGED nativeVars
    /\ UNCHANGED videoVars
    /\ UNCHANGED cmpVars

SSRDisable ==
    /\ pc = "constructed" /\ strategy = "NoSleepSSR"
    /\ LET r == NoSleepSSR_disable(enabled)
       IN  /\ enabled' = r.enabled
           /\ last' = Step("disable", Outcome(r), "none", "caller", 0)
    /\ UNCHANGED << env, pc, strategy, lastOutcome >>
    /\ UNCHANGED nativeVars
    /\ UNCHANGED videoVars
    /\ UNCHANGED cmpVars

\* ---------------------------------------------------------- NoSleepNative
\* The instance fields the methods read and write
NativeSelf == [enabled |-> enabled, wakeLock |-> wakeLock]

\* constructor: document.addEventListener(...) twice; a ReferenceError when
\* there is no document
NoSleepNative_new(e) == [threw |-> ~e.hasDocument, enabled |-> FALSE, wakeLock |-> 0]

\* a listener that does not look at document.visibilityState
handleVisibilityChange_ignoresVisibility(lock, visible) == lock # 0

\* a listener that does not look at this.wakeLock
handleVisibilityChange_ignoresLock(lock, visible) == visible

\* handleVisibilityChange: does the listener call this.enable()
handleVisibilityChange(lock, visible) == lock # 0 /\ visible

\* an enable() that drops the sentinel it was granted
NoSleepNative_enable_dropsGrant(self, h) ==
    [threw |-> FALSE, enabled |-> self.enabled, wakeLock |-> self.wakeLock]

\* enable(), resumed after the awaited request was granted with handle h
NoSleepNative_enable_granted(self, h) ==
    [threw |-> FALSE, enabled |-> TRUE, wakeLock |-> h]

\* an enable() without the catch clause: the rejection reaches the caller
NoSleepNative_enable_uncaught(self) ==
    [threw |-> TRUE, enabled |-> self.enabled, wakeLock |-> self.wakeLock]

\* enable(), resumed in its catch clause after the request was rejected
NoSleepNative_enable_rejected(self) ==
    [threw |-> FALSE, enabled |-> FALSE, wakeLock |-> self.wakeLock]

\* a disable() that forgets the handle without releasing it
NoSleepNative_disable_noRelease(self) ==
    [threw |-> FALSE, enabled |-> FALSE, wakeLock |-> 0, released |-> <<>>]

\* a disable() that releases the handle but keeps the reference
NoSleepNative_disable_keepsHandle(self) ==
    [ threw |-> FALSE, enabled |-> FALSE, wakeLock |-> self.wakeLock,
      released |-> IF self.wakeLock # 0 THEN << self.wakeLock >> ELSE <<>> ]

\* disable(): released is the handles release() is called on
NoSleepNative_disable(self) ==
    [ threw |-> FALSE, enabled |-> FALSE, wakeLock |-> 0,
      released |-> IF self.wakeLock # 0 THEN << self.wakeLock >> ELSE <<>> ]

SeqRange(q) == { q[i] : i \in 1..Len(q) }

NativeConstruct ==
    /\ pc = "loaded" /\ strategy = "NoSleepNative"
    /\ LET r == NoSleepNative_new(env)
       IN  /\ pc' = IF r.threw THEN "crashed" ELSE "constructed"
           /\ enabled' = r.enabled
           /\ wakeLock' = r.wakeLock
           /\ last' = Step("new", Outcome(r), "none", "caller", 0)
    /\ UNCHANGED << env, strategy, lastOutcome >>
    /\ UNCHANGED << inflight, nextHandle, active, releaseLog, docVisible >>
    /\ UNCHANGED videoVars
    /\ UNCHANGED cmpVars

\* enable() up to its await: navigator.wakeLock.request('screen') is pending
NativeEnable ==
    /\ pc = "constructed" /\ strategy = "NoSleepNative"
    /\ Inflight < MaxInflight
    /\ inflight' = [inflight EXCEPT !["caller"] = @ + 1]
    /\ last' = Step("request", "pending", "none", "caller", 0)
    /\ UNCHANGED << env, pc, strategy, enabled, lastOutcome >>
    /\ UNCHANGED << wakeLock, nextHandle, active, releaseLog, docVisible >>
    /\ UNCHANGED videoVars
    /\ UNCHANGED cmpVars

\* The platform grants a pending request (only to a visible document) with a
\* fresh sentinel, and the enable() that awaited it runs to its end.
NativeGrant ==
    /\ pc = "constructed" /\ strategy = "NoSleepNative"
    /\ docVisible
    /\ nextHandle <= MaxHandles
    /\ \E o \in Origins :
        /\ inflight[o] > 0
        /\ inflight' = [inflight EXCEPT ![o] = @ - 1]
        /\ LET r == NoSleepNative_enable_granted(NativeSelf, nextHandle)
           IN  /\ enabled' = r.enabled
               /\ wakeLock' = r.wakeLock
               /\ last' = Step("enable", Outcome(r), "granted", o, nextHandle)
               /\ lastOutcome' = IF r.threw THEN lastOutcome ELSE TRUE
    /\ active' = active \cup {nextHandle}
    /\ nextHandle' = nextHandle + 1
    /\ UNCHANGED << env, pc, strategy, releaseLog, docVisible >>
    /\ UNCHANGED videoVars
    /\ UNCHANGED cmpVars

\* The platform rejects a pending request; enable() runs its catch clause.
NativeReject ==
    /\ pc = "constructed" /\ strategy = "NoSleepNative"
    /\ \E o \in Origins :
        /\ inflight[o] > 0
        /\ inflight' = [inflight EXCEPT ![o] = @ - 1]
        /\ LET r == NoSleepNative_enable_rejected(NativeSelf)
           IN  /\ enabled' = r.enabled
               /\ wakeLock' = r.wakeLock
               /\ last' = Step("enable", Outcome(r), "rejected", o, 0)
    /\ lastOutcome' = FALSE
    /\ UNCHANGED << env, pc, strategy >>
    /\ UNCHANGED << nextHandle, active, releaseLog, docVisible >>
    /\ UNCHANGED videoVars
    /\ UNCHANGED cmpVars

NativeDisable ==
    /\ pc = "constructed" /\ strategy = "NoSleepNative"
    /\ LET r == NoSleepNative_disable(NativeSelf)
       IN  /\ enabled' = r.enabled
           /\ wakeLock' = r.wakeLock
           /\ releaseLog' = releaseLog \o r.released
           /\ active' = active \ SeqRange(r.released)
           /\ last' = Step("disable", Outcome(r), "none", "caller", wakeLock)
    /\ lastOutcome' = FALSE
    /\ UNCHANGED << env, pc, strategy >>
    /\ UNCHANGED << inflight, nextHandle, docVisible >>
    /\ UNCHANGED videoVars
    /\ UNCHANGED cmpVars

\* a 'release' listener that resets the instance
onRelease_resets(self) == [enabled |-> FALSE, wakeLock |-> 0]

\* the 'release' listener enable() attaches to a sentinel: console.debug only
onRelease(self) == [enabled |-> self.enabled, wakeLock |-> self.wakeLock]

\* The platform releases a sentinel on its own (battery saver, policy) and
\* notifies the sentinel's 'release' listener.
PlatformRelease ==
    /\ pc = "constructed" /\ strategy = "NoSleepNative"
    /\ \E h \in active :
        /\ active' = active \ {h}
        /\ last' = Step("release", "returned", "none", "platform", h)
        /\ lastOutcome' = IF h = wakeLock THEN FALSE ELSE lastOutcome
    /\ LET r == onRelease(NativeSelf)
       IN  enabled' = r.enabled /\ wakeLock' = r.wakeLock
    /\ UNCHANGED << env, pc, strategy >>
    /\ UNCHANGED << inflight, nextHandle, releaseLog, docVisible >>
    /\ UNCHANGED videoVars
    /\ UNCHANGED cmpVars

\* The listener part shared by the two document events, for the stored
\* handle lock
ListenerRuns(lock, visible, op) ==
    /\ IF handleVisibilityChange(lock, visible)
       THEN /\ Inflight < MaxInflight
            /\ inflight' = [inflight EXCEPT !["listener"] = @ + 1]
            /\ last' = Step(op, "returned", "requested", "listener", 0)
       ELSE /\ inflight' = inflight
            /\ last' = Step(op, "returned", "none", "listener", 0)

\* document 'visibilitychange': a hidden document loses its screen wake
\* locks (their 'release' listeners run), then the document listener runs
VisibilityChange ==
    /\ pc = "constructed" /\ strategy = "NoSleepNative"
    /\ docVisible' = ~docVisible
    /\ active' = IF docVisible' THEN active ELSE {}
    /\ lastOutcome' = IF ~docVisible' /\ wakeLock \in active THEN FALSE ELSE lastOutcome
    /\ LET r == IF ~docVisible' /\ active # {} THEN onRelease(NativeSelf) ELSE NativeSelf
       IN  /\ enabled' = r.enabled
           /\ wakeLock' = r.wakeLock
           /\ ListenerRuns(r.wakeLock, docVisible', "visibilitychange")
    /\ UNCHANGED << env, pc, strategy >>
    /\ UNCHANGED << nextHandle, releaseLog >>
    /\ UNCHANGED videoVars
    /\ UNCHANGED cmpVars

\* document 'fullscreenchange'
FullscreenChange ==
    /\ pc = "constructed" /\ strategy = "NoSleepNative"
    /\ ListenerRuns(wakeLock, docVisible, "fullscreenchange")
    /\ UNCHANGED << env, pc, strategy, enabled, lastOutcome >>
    /\ UNCHANGED << wakeLock, nextHandle, active, releaseLog, docVisible >>
    /\ UNCHANGED videoVars
    /\ UNCHANGED cmpVars

\* ----------------------------------------------------------- NoSleepVideo
\* source.type = `video/${type}`
MimeType(type) == IF type = "webm" THEN "video/webm" ELSE "video/mp4"

\* _addSourceToVideo: a new <source> of the given type, appended to element
_addSourceToVideo(element, type) ==
    [element EXCEPT !.sources = Append(@, MimeType(type))]

\* constructor: a ReferenceError without a document; otherwise the element
\* gets its two sources, is appended to <body> when there is one
\* (querySelector('body')?.append), and gets the loadedmetadata listener
NoSleepVideo_new(e) ==
    IF ~e.hasDocument
    THEN [threw |-> TRUE, created |-> 0, element |-> NoElement]
    ELSE LET withSources ==
                 _addSourceToVideo(_addSourceToVideo(NoElement, "webm"), "mp4")
         IN  [ threw |-> FALSE, created |-> 1,
               element |-> [withSources EXCEPT !.inBody = e.hasBody,
                                               !.onloadedmetadata = 1] ]

\* the loadedmetadata listener
onLoadedMetadata(element) ==
    IF element.duration <= OneSecond
    THEN [element EXCEPT !.loop = TRUE]
    ELSE [element EXCEPT !.ontimeupdate = @ + 1]

\* Math.random(): a value in [0, 1)
RandomValues == 0..(OneSecond - 1)

\* a timeupdate listener that never moves the position
onTimeUpdate_noReset(currentTime) == {currentTime}

\* one timeupdate listener: the positions it can leave the element at
onTimeUpdate(currentTime) ==
    IF currentTime > HalfSecond THEN RandomValues ELSE {currentTime}

\* all timeupdate listeners of the element, one after the other
RECURSIVE AfterTimeUpdate(_, _)
AfterTimeUpdate(currentTime, listeners) ==
    IF listeners = 0 THEN {currentTime}
    ELSE UNION { AfterTimeUpdate(t, listeners - 1) : t \in onTimeUpdate(currentTime) }

\* enable(), resumed after the awaited play() promise was fulfilled
NoSleepVideo_enable_resolved(wasEnabled) == [threw |-> FALSE, enabled |-> TRUE]

\* enable(), resumed in its catch clause after play() was rejected
NoSleepVideo_enable_rejected(wasEnabled) == [threw |-> FALSE, enabled |-> FALSE]

\* a disable() that does not pause the element
NoSleepVideo_disable_noPause(wasEnabled) ==
    [threw |-> FALSE, enabled |-> FALSE, pause |-> FALSE]

\* disable(): pause() is called, enabled = false
NoSleepVideo_disable(wasEnabled) == [threw |-> FALSE, enabled |-> FALSE, pause |-> TRUE]

\* HTMLMediaElement.pause(): a playing element becomes paused
Pause(element) == [element EXCEPT !.paused = TRUE]

Ended(element) ==
    element.duration > 0 /\ ~element.loop /\ element.currentTime >= element.duration

\* durations the platform can report: of the short clip and of the long one
Durations == { OneSecond - 1, OneSecond, OneSecond + 1, OneSecond + MaxStep }

VideoConstruct ==
    /\ pc = "loaded" /\ strategy = "NoSleepVideo"
    /\ LET r == NoSleepVideo_new(env)
       IN  /\ pc' = IF r.threw THEN "crashed" ELSE "constructed"
           /\ elementsCreated' = elementsCreated + r.created
           /\ noSleepVideo' = r.element
           /\ last' = Step("new", Outcome(r), "none", "caller", 0)
    /\ UNCHANGED << env, strategy, enabled, lastOutcome, rejecting, metadataEvents >>
    /\ UNCHANGED nativeVars
    /\ UNCHANGED cmpVars

\* enable() up to its await: play() either returns a pending promise and
\* un-pauses the element, or (autoplay policy) a promise already rejected
VideoEnable ==
    /\ pc = "constructed" /\ strategy = "NoSleepVideo"
    /\ Inflight + rejecting < MaxInflight
    /\ \E allowed \in BOOLEAN :
        IF allowed
        THEN /\ inflight' = [inflight EXCEPT !["caller"] = @ + 1]
             /\ noSleepVideo' =
                    [noSleepVideo EXCEPT
                        !.paused = FALSE,
                        !.currentTime = IF Ended(noSleepVideo) THEN 0 ELSE @]
             /\ rejecting' = rejecting
        ELSE /\ rejecting' = rejecting + 1
             /\ UNCHANGED << inflight, noSleepVideo >>
    /\ last' = Step("request", "pending", "none", "caller", 0)
    /\ UNCHANGED << env, pc, strategy, enabled, lastOutcome >>
    /\ UNCHANGED << wakeLock, nextHandle, active, releaseLog, docVisible >>
    /\ UNCHANGED << elementsCreated, metadataEvents >>
    /\ UNCHANGED cmpVars

\* Playback starts: the pending play() promises are fulfilled (after the
\* rejections queued before them) and every awaiting enable() runs to its end
PlayStarted ==
    /\ pc = "constructed" /\ strategy = "NoSleepVideo"
    /\ Inflight > 0 /\ rejecting = 0 /\ ~noSleepVideo.paused
    /\ LET r == NoSleepVideo_enable_resolved(enabled)
       IN  /\ enabled' = r.enabled
           /\ last' = Step("enable", Outcome(r), "granted", "caller", 0)
           /\ lastOutcome' = IF r.threw THEN lastOutcome ELSE TRUE
    /\ inflight' = [o \in Origins |-> 0]
    /\ UNCHANGED << env, pc, strategy >>
    /\ UNCHANGED << wakeLock, nextHandle, active, releaseLog, docVisible >>
    /\ UNCHANGED << elementsCreated, noSleepVideo, rejecting, metadataEvents >>
    /\ UNCHANGED cmpVars

\* No source can be played: the pending play() promises are rejected
PlayFailed ==
    /\ pc = "constructed" /\ strategy = "NoSleepVideo"
    /\ Inflight > 0 /\ rejecting = 0
    /\ LET r == NoSleepVideo_enable_rejected(enabled)
       IN  /\ enabled' = r.enabled
           /\ last' = Step("enable", Outcome(r), "rejected", "caller", 0)
    /\ lastOutcome' = FALSE
    /\ inflight' = [o \in Origins |-> 0]
    /\ UNCHANGED << env, pc, strategy >>
    /\ UNCHANGED << wakeLock, nextHandle, active, releaseLog, docVisible >>
    /\ UNCHANGED << elementsCreated, noSleepVideo, rejecting, metadataEvents >>
    /\ UNCHANGED cmpVars

\* The play() promises rejected by the autoplay policy or by pause() reach
\* the catch clause of their enable()
PlayRejected ==
    /\ pc = "constructed" /\ strategy = "NoSleepVideo"
    /\ rejecting > 0
    /\ LET r == NoSleepVideo_enable_rejected(enabled)
       IN  /\ enabled' = r.enabled
           /\ last' = Step("enable", Outcome(r), "rejected", "caller", 0)
    /\ lastOutcome' = FALSE
    /\ rejecting' = 0
    /\ UNCHANGED << env, pc, strategy >>
    /\ UNCHANGED nativeVars
    /\ UNCHANGED << elementsCreated, noSleepVideo, metadataEvents >>
    /\ UNCHANGED cmpVars

\* disable(): pause() rejects the play() promises still pending
VideoDisable ==
    /\ pc = "constructed" /\ strategy = "NoSleepVideo"
    /\ LET r == NoSleepVideo_disable(enabled)
           pausing == r.pause /\ ~noSleepVideo.paused
       IN  /\ enabled' = r.enabled
           /\ noSleepVideo' = IF r.pause THEN Pause(noSleepVideo) ELSE noSleepVideo
           /\ rejecting' = IF pausing THEN rejecting + Inflight ELSE rejecting
           /\ inflight' = IF pausing THEN [o \in Origins |-> 0] ELSE inflight
           /\ last' = Step("disable", Outcome(r), "none", "caller", 0)
    /\ lastOutcome' = FALSE
    /\ UNCHANGED << env, pc, strategy >>
    /\ UNCHANGED << wakeLock, nextHandle, active, releaseLog, docVisible >>
    /\ UNCHANGED << elementsCreated, metadataEvents >>
    /\ UNCHANGED cmpVars

\* The element reports its metadata: the duration of the source it chose
LoadedMetadata ==
    /\ pc = "constructed" /\ strategy = "NoSleepVideo"
    /\ metadataEvents < MaxMetadataEvents
    /\ noSleepVideo.onloadedmetadata > 0
    /\ \E d \in Durations :
        /\ noSleepVideo.duration \in {0, d}
        /\ noSleepVideo' = onLoadedMetadata([noSleepVideo EXCEPT !.duration = d])
    /\ metadataEvents' = metadataEvents + 1
    /\ last' = Step("loadedmetadata", "returned", "none", "platform", 0)
    /\ UNCHANGED << env, pc, strategy, enabled, lastOutcome >>
    /\ UNCHANGED nativeVars
    /\ UNCHANGED << elementsCreated, rejecting >>
    /\ UNCHANGED cmpVars

\* Playback advances (wrapping when the element loops) and the element
\* notifies its timeupdate listeners
TimeUpdate ==
    /\ pc = "constructed" /\ strategy = "NoSleepVideo"
    /\ ~noSleepVideo.paused /\ noSleepVideo.duration > 0 /\ ~Ended(noSleepVideo)
    /\ \E step \in 1..MaxStep :
        LET t == noSleepVideo.currentTime + step
            played == IF t < noSleepVideo.duration THEN t
                      ELSE IF noSleepVideo.loop THEN t - noSleepVideo.duration
                      ELSE noSleepVideo.duration
        IN  /\ \E after \in AfterTimeUpdate(played, noSleepVideo.ontimeupdate) :
                    noSleepVideo' = [noSleepVideo EXCEPT !.currentTime = after]
            /\ last' = [ Step("timeupdate", "returned", "none", "platform", 0)
                            EXCEPT !.observed = played ]
    /\ UNCHANGED << env, pc, strategy, enabled, lastOutcome >>
    /\ UNCHANGED nativeVars
    /\ UNCHANGED << elementsCreated, rejecting, metadataEvents >>
    /\ UNCHANGED cmpVars

\* ------------------------------------------------------ version comparator
Versions == (0..MaxVersionPart) \X (0..MaxVersionPart)

InitCompare ==
    /\ va \in Versions /\ vb \in Versions /\ vc \in Versions
    /\ gte = <<>>

\* isVersionGTE applied to the drawn versions
Compare ==
    /\ gte = <<>>
    /\ gte' = [ ab |-> isVersionGTE(va, vb), ba |-> isVersionGTE(vb, va),
                bc |-> isVersionGTE(vb, vc), ac |-> isVersionGTE(va, vc),
                aa |-> isVersionGTE(va, va) ]
    /\ UNCHANGED << va, vb, vc >>
    /\ UNCHANGED << env, pc, strategy, enabled, last, lastOutcome >>
    /\ UNCHANGED nativeVars
    /\ UNCHANGED videoVars

\* --------------------------------------------------------- specifications
Next ==
    \/ LoadModule
    \/ SSRConstruct \/ SSREnable \/ SSRDisable
    \/ NativeConstruct \/ NativeEnable \/ NativeGrant \/ NativeReject
    \/ NativeDisable \/ PlatformRelease \/ VisibilityChange \/ FullscreenChange
    \/ VideoConstruct \/ VideoEnable \/ PlayStarted \/ PlayFailed \/ PlayRejected
    \/ VideoDisable \/ LoadedMetadata \/ TimeUpdate

\* The life cycle of one instance in each environment
Spec == Init /\ [][Next]_vars

\* Strategy selection alone, over every user agent
InitSelect ==
    /\ env \in Environments(UserAgents)
    /\ InitInstance
    /\ InitCmp

NextSelect == LoadModule \/ SSRConstruct \/ NativeConstruct \/ VideoConstruct

SpecSelect == InitSelect /\ [][NextSelect]_vars

\* The version comparator on every triple of bounded versions
InitCompareSpec ==
    /\ env = [ hasNavigator |-> FALSE, navigator |-> NoNavigator,
               hasDocument |-> FALSE, hasBody |-> FALSE ]
    /\ InitInstance
    /\ InitCompare

NextCompare == Compare

SpecCompare == InitCompareSpec /\ [][NextCompare]_vars

\* ------------------------------------------------------------------ claims
Constructed == pc = "constructed"
Native == strategy = "NoSleepNative"
Video == strategy = "NoSleepVideo"
Quiescent == Constructed /\ Inflight = 0 /\ rejecting = 0

\* C1: a NoSleepNative instance never has a granted, unreleased wake-lock
\* handle other than the one stored in wakeLock (so at most one is active).
C1_AtMostOneActiveHandle ==
    Native => /\ \A h \in active : h = wakeLock
              /\ Cardinality(active) <= 1

\* C2: with no enable() in flight, enabled equals the outcome of the latest
\* completed enable() / disable() / platform release of the held lock, and
\* enabled is never true once the platform has released the stored lock.
C2_EnabledNeverStale ==
    Quiescent =>
        /\ enabled = lastOutcome
        /\ (Native /\ enabled) => wakeLock \in active

\* C3: on NoSleepNative, when enable() completes after a grant, enabled is
\* true and the granted handle is the stored one; right after disable()
\* returns, enabled is false, wakeLock is undefined, and release() has been
\* called on the handle that was stored when disable() was called.
C3_EnableDisablePostconditions ==
    Native =>
        /\ (last.op = "enable" /\ last.platform = "granted") =>
               /\ last.result = "returned"
               /\ enabled
               /\ wakeLock = last.handle
        /\ last.op = "disable" =>
               /\ last.result = "returned"
               /\ ~enabled
               /\ wakeLock = 0
               /\ last.handle # 0 =>
                      /\ releaseLog # <<>>
                      /\ releaseLog[Len(releaseLog)] = last.handle
                      /\ last.handle \notin active

\* disable() has just released a stored handle while a request is in flight
C3_Witness ==
    /\ Native /\ last.op = "disable" /\ last.handle # 0
    /\ Inflight > 0 /\ nextHandle > 2

\* C4: on NoSleepNative and NoSleepVideo a disable() that directly follows a
\* disable() changes nothing: enabled, wakeLock, the element, the calls in
\* flight, and no further release() reaches the platform.
C4_DisableIdempotent ==
    [][ (last.op = "disable" /\ last'.op = "disable") =>
            /\ enabled' = enabled
            /\ wakeLock' = wakeLock
            /\ noSleepVideo' = noSleepVideo
            /\ releaseLog' = releaseLog
            /\ active' = active
            /\ inflight' = inflight
            /\ rejecting' = rejecting ]_vars

\* a second disable() in a row, the first one having released a handle with
\* an enable() still in flight
C4_Witness ==
    /\ Native /\ last.op = "disable" /\ last.prev = "disable"
    /\ releaseLog # <<>> /\ Inflight > 0

\* C5: on NoSleepNative and NoSleepVideo, an enable() whose platform request
\* was rejected returns normally and leaves enabled false, also when the
\* visibility listener made the call.
C5_RejectionIsSwallowed ==
    (last.op = "enable" /\ last.platform = "rejected") =>
        /\ last.result = "returned"
        /\ ~enabled

\* the re-acquire requested by the visibility listener has just been rejected
C5_Witness ==
    /\ Native /\ last.op = "enable" /\ last.platform = "rejected"
    /\ last.origin = "listener" /\ wakeLock # 0

\* C6: on NoSleepSSR construction never fails, every enable() and disable()
\* throws, and enabled stays false.
C6_UnsupportedAlwaysThrows ==
    strategy = "NoSleepSSR" =>
        /\ pc # "crashed"
        /\ ~enabled
        /\ last.op = "new" => last.result = "returned"
        /\ last.op \in {"enable", "disable"} => last.result = "threw"

\* enable() has thrown right after another call of enable()
C6_Witness ==
    /\ strategy = "NoSleepSSR" /\ Constructed
    /\ last.op = "enable" /\ last.prev = "enable" /\ last.result = "threw"

\* C7: without a document the selection is NoSleepSSR, whatever the other
\* inputs are, so no constructor touches the missing document.
C7_NoDocumentSelectsUnsupported ==
    (pc # "start" /\ ~env.hasDocument) =>
        /\ strategy = "NoSleepSSR"
        /\ pc # "crashed"

\* the version of the claim's rule: does the user agent parse to an iOS
\* version below 18.4
BelowFix(userAgent) ==
    LET v == getIOSVersion(userAgent)
    IN  v # <<>> /\ (v[1] < 18 \/ (v[1] = 18 /\ v[2] < 4))

\* C8: with a document, the selection is NoSleepVideo exactly when there is
\* no native wake lock, or the user agent parses to an iOS version below
\* 18.4 in standalone mode; otherwise it is NoSleepNative.
C8_SelectionRule ==
    (pc # "start" /\ env.hasDocument) =>
        strategy = IF \/ ~env.navigator.wakeLock
                      \/ (env.navigator.standalone /\ BelowFix(env.navigator.userAgent))
                   THEN "NoSleepVideo"
                   ELSE "NoSleepNative"

\* the position of a version in the lexicographic order
Rank(v) == v[1] * (MaxVersionPart + 1) + v[2]

\* C9: isVersionGTE is the lexicographic >= on (major, minor): reflexive,
\* true for (m, n+1) against (m, n) and false the other way round,
\* transitive and total.
C9_LexicographicOrder ==
    gte # <<>> =>
        /\ gte.ab = (Rank(va) >= Rank(vb))
        /\ gte.aa
        /\ (va[1] = vb[1] /\ va[2] = vb[2] + 1) => (gte.ab /\ ~gte.ba)
        /\ (gte.ab /\ gte.bc) => gte.ac
        /\ gte.ab \/ gte.ba

\* a larger major with a smaller minor has been compared
C9_Witness ==
    /\ gte # <<>> /\ gte.ab /\ ~gte.ba
    /\ va[1] > vb[1] /\ va[2] < vb[2]

\* C10: a constructed NoSleepVideo has created exactly one element, which is
\* in the document and has exactly two sources of different types.
C10_OneAttachedElement ==
    (Video /\ Constructed) =>
        /\ elementsCreated = 1
        /\ noSleepVideo.inBody
        /\ Len(noSleepVideo.sources) = 2
        /\ noSleepVideo.sources[1] # noSleepVideo.sources[2]

DocumentEvents == {"visibilitychange", "fullscreenchange"}

\* C11: on NoSleepNative a visibilitychange or fullscreenchange event issues
\* an enable() request exactly when the document is visible and a handle is
\* stored; when the platform grants that request, the granted handle is
\* stored and active and enabled is true.
C11_ReacquireWhenVisible ==
    Native =>
        /\ last.op \in DocumentEvents =>
               ((last.platform = "requested") <=> (docVisible /\ wakeLock # 0))
        /\ (last.op = "enable" /\ last.platform = "granted" /\ last.origin = "listener") =>
               /\ enabled
               /\ wakeLock = last.handle
               /\ wakeLock \in active

\* the first handle was released by the platform (never by disable()) and
\* the request the listener made on becoming visible has been granted
C11_Witness ==
    /\ Native /\ last.op = "enable" /\ last.platform = "granted"
    /\ last.origin = "listener" /\ last.prev = "visibilitychange"
    /\ releaseLog = <<>> /\ wakeLock = 2 /\ active = {2} /\ enabled

\* C12: on NoSleepNative disable() releases and clears only the stored
\* handle and leaves the requests in flight alone; when one of them is
\* granted right after, its handle is stored and enabled is true.
C12_DisableDoesNotCancel ==
    [][ Native =>
          /\ last'.op = "disable" =>
                 /\ inflight' = inflight
                 /\ nextHandle' = nextHandle
                 /\ wakeLock' = 0
                 /\ active' = active \ {wakeLock}
                 /\ releaseLog' = IF wakeLock # 0 THEN Append(releaseLog, wakeLock)
                                  ELSE releaseLog
          /\ (last.op = "disable" /\ last'.op = "enable" /\ last'.platform = "granted") =>
                 /\ enabled'
                 /\ wakeLock' = last'.handle
                 /\ wakeLock' \in active' ]_vars

\* a request that was in flight during disable() has been granted after it
C12_Witness ==
    /\ Native /\ last.op = "enable" /\ last.platform = "granted"
    /\ last.prev = "disable" /\ releaseLog # <<>>
    /\ enabled /\ wakeLock \in active

\* C13: on NoSleepNative every state without an enable() in flight is Idle
\* (no stored handle, enabled false) or Held (a stored handle, enabled true).
C13_IdleOrHeld ==
    (Native /\ Quiescent) =>
        \/ wakeLock = 0 /\ ~enabled
        \/ wakeLock # 0 /\ enabled

\* C14: on NoSleepNative a platform release of a sentinel (on its own or
\* because the document was hidden) changes neither enabled nor wakeLock.
C14_ReleaseOnlyLogged ==
    [][ (Native /\ last'.op \in {"release", "visibilitychange"}) =>
            /\ enabled' = enabled
            /\ wakeLock' = wakeLock ]_vars

\* the platform has just released the stored handle
C14_Witness ==
    /\ Native /\ last.op = "release" /\ last.handle = wakeLock
    /\ enabled /\ wakeLock \notin active

\* C15: on NoSleepVideo at most one timeupdate listener is ever attached,
\* and once metadata was delivered exactly one of looping and the
\* timeupdate listener is in place.
C15_MetadataHandledOnce ==
    (Video /\ Constructed) =>
        /\ noSleepVideo.ontimeupdate <= 1
        /\ metadataEvents > 0 => (noSleepVideo.loop # (noSleepVideo.ontimeupdate > 0))

LongClip == Video /\ Constructed /\ noSleepVideo.ontimeupdate > 0

\* C16 as stated: on the long clip a timeupdate at a position above 0.5
\* moves the position strictly backward and below 1.0, a position at or
\* below 0.5 stays, and the position after the update is below 1.0.
C16_StrictlyBackward ==
    (LongClip /\ last.op = "timeupdate") =>
        /\ last.observed > HalfSecond =>
               /\ noSleepVideo.currentTime < last.observed
               /\ noSleepVideo.currentTime < OneSecond
        /\ last.observed <= HalfSecond => noSleepVideo.currentTime = last.observed
        /\ noSleepVideo.currentTime < OneSecond
        /\ ~Ended(noSleepVideo)

\* C16 amended: on the long clip a timeupdate at a position above 0.5 moves
\* the position to some value in [0, 1.0), a position at or below 0.5
\* stays, and the position after the update is below 1.0, short of the end.
C16_ResetBelowOne ==
    (LongClip /\ last.op = "timeupdate") =>
        /\ last.observed > HalfSecond =>
               /\ noSleepVideo.currentTime >= 0
               /\ noSleepVideo.currentTime < OneSecond
        /\ last.observed <= HalfSecond => noSleepVideo.currentTime = last.observed
        /\ noSleepVideo.currentTime < OneSecond
        /\ ~Ended(noSleepVideo)

\* a timeupdate above 0.5 has moved the position forward
C16_Witness ==
    /\ LongClip /\ last.op = "timeupdate"
    /\ last.observed > HalfSecond
    /\ noSleepVideo.currentTime > last.observed

\* C17: on NoSleepNative, right after disable() with no request in flight,
\* no sentinel granted to the instance is still active.
C17_DisableReleasesEverything ==
    (Native /\ last.op = "disable" /\ Inflight = 0) => active = {}

\* C18: on NoSleepNative, with no stored handle a visibilitychange or
\* fullscreenchange event requests nothing and changes neither enabled nor
\* wakeLock.
C18_NoLockNoRequest ==
    [][ (Native /\ wakeLock = 0 /\ last'.op \in DocumentEvents) =>
            /\ last'.platform = "none"
            /\ inflight' = inflight
            /\ nextHandle' = nextHandle
            /\ enabled' = enabled
            /\ wakeLock' = wakeLock ]_vars

\* the document became visible right after disable() released a handle
C18_Witness ==
    /\ Native /\ last.op = "visibilitychange" /\ last.prev = "disable"
    /\ docVisible /\ wakeLock = 0 /\ releaseLog # <<>>

\* NoSleepVideo is off: not enabled, paused, no play() promise pending
VideoOff == ~enabled /\ noSleepVideo.paused /\ Inflight = 0

====
